---- MODULE Spec2Model ----
(***************************************************************************)
(* Model of the FCM delivery client of gaurun's gcm package:               *)
(*   Message.validate, the Message -> MessageV1 translation, the JSON      *)
(*   encoding of WrappedMessage, getAcsessToken and Client.Send / send.    *)
(* One Send call is a sequential program; its position is pc.  The token   *)
(* provider, the HTTP transport and the FCM service are the environment:   *)
(* their outcomes are chosen nondeterministically.                         *)
(***************************************************************************)
EXTENDS Integers, Sequences, FiniteSets, TLC

(* ------------------------------ bounds -------------------------------- *)
\* longest RegistrationIDs list that is sent through the delivery loop
MaxTargets == 2
\* number of Send calls made on one Client
MaxCalls == 2
\* number of buffer elements one Read of the transport takes from the body
ReadChunk == 16

(* ------------------------- program constants -------------------------- *)
maxRegistrationIDs == 1000
maxTimeToLive == 2419200
fcmPushPriorityHigh == "high"
fcmPushPriorityNormal == "normal"
StatusOK == 200

(* ------------------------------ errors -------------------------------- *)
\* the nil error
NoErr == "nil"
ErrNilMessage == "the message must not be nil"
ErrNilIDs == "the message's RegistrationIDs field must not be nil"
ErrNoIDs == "the message must specify at least one registration ID"
ErrTooManyIDs == "the message may specify at most 1000 registration IDs"
ErrTimeToLive == "the message's TimeToLive field must be an integer between 0 and 2419200 (4 weeks)"
ErrPriority == "priority must be high or normal"
ErrCredentials == "error getting credentials"
ErrToken == "error getting token"
ErrEncode == "json: unsupported type"
ErrTransport == "transport error"
ErrStatus == "invalid status code"
ErrDecode == "json: cannot decode response"

(* ----------------------------- data model ----------------------------- *)
\* A *Message is a record with field nil; a non-nil one carries the fields
\* of Message.  A []string is a record [nil, elems]: Go tells a nil slice
\* from an empty one.
NilMessage == [nil |-> TRUE]

NilSlice == [nil |-> TRUE, elems |-> <<>>]

Slice(s) == [nil |-> FALSE, elems |-> s]

Notification(title, body, clickAction, tag) ==
    [Title |-> title, Body |-> body, ClickAction |-> clickAction, Tag |-> tag]

\* Data is the map of the custom payload, as the list of its entries in key
\* order; ok = FALSE marks a value encoding/json cannot encode (a chan, a func)
NoData == <<>>
GoodData == <<[k |-> "k", v |-> "v", ok |-> TRUE]>>
BadData == <<[k |-> "k", v |-> "", ok |-> FALSE]>>

Message(ids, collapseKey, notification, data, delay, ttl, priority, pkg, dryRun) ==
    [nil |-> FALSE,
     RegistrationIDs |-> ids,
     CollapseKey |-> collapseKey,
     Notification |-> notification,
     Data |-> data,
     DelayWhileIdle |-> delay,
     TimeToLive |-> ttl,
     Priority |-> priority,
     RestrictedPackageName |-> pkg,
     DryRun |-> dryRun]

(* ----------------------------- validate ------------------------------- *)
\* validate with the upper timeToLive bound taken as exclusive
validate_exclusiveMax(m) ==
    IF m.nil THEN ErrNilMessage
    ELSE IF m.RegistrationIDs.nil THEN ErrNilIDs
    ELSE IF Len(m.RegistrationIDs.elems) = 0 THEN ErrNoIDs
    ELSE IF Len(m.RegistrationIDs.elems) > maxRegistrationIDs THEN ErrTooManyIDs
    ELSE IF m.TimeToLive < 0 \/ maxTimeToLive <= m.TimeToLive THEN ErrTimeToLive
    ELSE IF /\ m.Priority # ""
            /\ m.Priority # fcmPushPriorityHigh
            /\ m.Priority # fcmPushPriorityNormal THEN ErrPriority
    ELSE NoErr

\* validate without the check for an empty RegistrationIDs list
validate_noEmptyCheck(m) ==
    IF m.nil THEN ErrNilMessage
    ELSE IF m.RegistrationIDs.nil THEN ErrNilIDs
    ELSE IF Len(m.RegistrationIDs.elems) > maxRegistrationIDs THEN ErrTooManyIDs
    ELSE IF m.TimeToLive < 0 \/ maxTimeToLive < m.TimeToLive THEN ErrTimeToLive
    ELSE IF /\ m.Priority # ""
            /\ m.Priority # fcmPushPriorityHigh
            /\ m.Priority # fcmPushPriorityNormal THEN ErrPriority
    ELSE NoErr

\* Message.validate: the error of the first rule broken, or nil
validate(m) ==
    IF m.nil THEN ErrNilMessage
    ELSE IF m.RegistrationIDs.nil THEN ErrNilIDs
    ELSE IF Len(m.RegistrationIDs.elems) = 0 THEN ErrNoIDs
    ELSE IF Len(m.RegistrationIDs.elems) > maxRegistrationIDs THEN ErrTooManyIDs
    ELSE IF m.TimeToLive < 0 \/ maxTimeToLive < m.TimeToLive THEN ErrTimeToLive
    ELSE IF /\ m.Priority # ""
            /\ m.Priority # fcmPushPriorityHigh
            /\ m.Priority # fcmPushPriorityNormal THEN ErrPriority
    ELSE NoErr

(* ---------------------------- translation ----------------------------- *)
\* the translation with Tag and ClickAction assigned to each other's field
translate_swapped(m, token) ==
    [Token |-> token,
     CollapseKey |-> m.CollapseKey,
     Notification |-> [Title |-> m.Notification.Title,
                       Body |-> m.Notification.Body],
     Data |-> m.Data,
     DelayWhileIdle |-> m.DelayWhileIdle,
     TimeToLive |-> m.TimeToLive,
     Android |-> [Notification |-> [ClickAction |-> m.Notification.Tag,
                                    Tag |-> m.Notification.ClickAction],
                  Priority |-> m.Priority],
     RestrictedPackageName |-> m.RestrictedPackageName,
     DryRun |-> m.DryRun]

\* the MessageV1 built by the loop body of send for one registration ID
translate(m, token) ==
    [Token |-> token,
     CollapseKey |-> m.CollapseKey,
     Notification |-> [Title |-> m.Notification.Title,
                       Body |-> m.Notification.Body],
     Data |-> m.Data,
     DelayWhileIdle |-> m.DelayWhileIdle,
     TimeToLive |-> m.TimeToLive,
     Android |-> [Notification |-> [ClickAction |-> m.Notification.ClickAction,
                                    Tag |-> m.Notification.Tag],
                  Priority |-> m.Priority],
     RestrictedPackageName |-> m.RestrictedPackageName,
     DryRun |-> m.DryRun]

(* --------------------------- JSON encoding ---------------------------- *)
\* The encoder's output is a sequence of JSON lexemes.
Quote(s) == "\"" \o s \o "\""

JBool(b) == IF b THEN "true" ELSE "false"

Member(key, value) == <<Quote(key), ":">> \o value

RECURSIVE Join(_)
Join(members) ==
    IF Len(members) = 0 THEN <<>>
    ELSE IF Len(members) = 1 THEN members[1]
    ELSE members[1] \o <<",">> \o Join(Tail(members))

Object(members) == <<"{">> \o Join(members) \o <<"}">>

\* a member with the omitempty option is left out when empty is TRUE
OmitEmpty(empty, key, value) ==
    IF empty THEN <<>> ELSE <<Member(key, value)>>

EncodeData(data) ==
    Object([i \in 1..Len(data) |-> Member(data[i].k, <<Quote(data[i].v)>>)])

EncodeNotificationV1(n) ==
    Object(<<Member("title", <<Quote(n.Title)>>),
             Member("body", <<Quote(n.Body)>>)>>)

\* AndroidNotification with omitempty on both of its fields
EncodeAndroidNotification_omitempty(n) ==
    Object(OmitEmpty(n.ClickAction = "", "click_action", <<Quote(n.ClickAction)>>)
           \o OmitEmpty(n.Tag = "", "tag", <<Quote(n.Tag)>>))

EncodeAndroidNotification(n) ==
    Object(<<Member("click_action", <<Quote(n.ClickAction)>>),
             Member("tag", <<Quote(n.Tag)>>)>>)

EncodeAndroid(a) ==
    Object(<<Member("notification", EncodeAndroidNotification(a.Notification))>>
           \o OmitEmpty(a.Priority = "", "priority", <<Quote(a.Priority)>>))

\* omitempty never leaves out a struct: notification and android are always written
EncodeMessageV1(w) ==
    Object(<<Member("token", <<Quote(w.Token)>>)>>
           \o OmitEmpty(w.CollapseKey = "", "collapse_key", <<Quote(w.CollapseKey)>>)
           \o <<Member("notification", EncodeNotificationV1(w.Notification))>>
           \o OmitEmpty(Len(w.Data) = 0, "data", EncodeData(w.Data))
           \o OmitEmpty(~w.DelayWhileIdle, "delay_while_idle", <<JBool(w.DelayWhileIdle)>>)
           \o OmitEmpty(w.TimeToLive = 0, "time_to_live", <<ToString(w.TimeToLive)>>)
           \o <<Member("android", EncodeAndroid(w.Android))>>
           \o OmitEmpty(w.RestrictedPackageName = "", "restricted_package_name",
                        <<Quote(w.RestrictedPackageName)>>)
           \o OmitEmpty(~w.DryRun, "dry_run", <<JBool(w.DryRun)>>))

\* WrappedMessage{messageV1}
WrappedMessage(w) == [Message |-> w]

\* json.Encoder.Encode: the value's encoding followed by a newline, or an
\* error and nothing written
Encode(wrapped) ==
    IF \E i \in 1..Len(wrapped.Message.Data) : ~wrapped.Message.Data[i].ok
    THEN [err |-> ErrEncode, out |-> <<>>]
    ELSE [err |-> NoErr,
          out |-> Object(<<Member("message", EncodeMessageV1(wrapped.Message))>>)
                  \o <<"\n">>]

(* ------------------------------ inputs -------------------------------- *)
TargetIDs == {"A", "B"}

\* the registration ID lists short enough to be sent through the loop
SendableIDs == UNION {[1..n -> TargetIDs] : n \in 1..MaxTargets}

FullIDs == [i \in 1..maxRegistrationIDs |-> "A"]

TooManyIDs == [i \in 1..(maxRegistrationIDs + 1) |-> "A"]

TimeToLives == {-1, 0, maxTimeToLive, maxTimeToLive + 1}

Priorities == {"", "high", "normal", "HIGH"}

EmptyNotification == Notification("", "", "", "")

\* messages that vary what validation and the delivery loop look at
ProtocolMessages ==
    {NilMessage} \cup
    {Message(ids, "", EmptyNotification, d, FALSE, ttl, p, "", FALSE) :
        ids \in {NilSlice, Slice(<<>>), Slice(TooManyIDs)}
                \cup {Slice(s) : s \in SendableIDs},
        d \in {NoData, BadData}, ttl \in TimeToLives, p \in Priorities}

\* single-target messages that vary every field the translation copies
PayloadMessages ==
    {Message(Slice(<<"tok1">>), ck, n, d, dwi, ttl, p, pkg, dry) :
        ck \in {"", "ck"},
        n \in {EmptyNotification, Notification("Hi", "there", "", ""),
               Notification("Hi", "there", "OPEN", "tg")},
        d \in {NoData, GoodData},
        dwi \in BOOLEAN, ttl \in {0, 3600}, p \in {"", "high"},
        pkg \in {"", "pkg"}, dry \in BOOLEAN}

Messages == ProtocolMessages \cup PayloadMessages

\* inputs of validate alone, with the list of exactly maxRegistrationIDs entries
ValidateInputs ==
    {NilMessage} \cup
    {Message(ids, "", EmptyNotification, NoData, FALSE, ttl, p, "", FALSE) :
        ids \in {NilSlice, Slice(<<>>), Slice(<<"A">>), Slice(<<"A", "B">>),
                 Slice(FullIDs), Slice(TooManyIDs)},
        ttl \in TimeToLives, p \in Priorities \cup {"High"}}

Credentials == {"service-account", "malformed"}

(* ------------------------------- state -------------------------------- *)
VARIABLES
    pc,            \* position in Send / send: idle, validate, token, loop,
                   \* request, await, returned, panic
    calls,         \* Send calls made so far
    tokensIssued,  \* tokens the token provider has issued so far
    issuedAtEntry, \* tokensIssued when the current call began
    tokenCalls,    \* calls of getAcsessToken in the current call
    arg,           \* the *Message the caller passed
    msg,           \* the message as send sees it
    acsJsonData,   \* the credential blob
    verr,          \* result of msg.validate()
    acsToken,      \* the token of this call; 0 is no token
    err,           \* the err variable of send's outer scope
    idx,           \* registration IDs the range loop has taken
    wires,         \* the MessageV1 values built, one per iteration
    buf,           \* the bytes.Buffer declared once per call
    posts,         \* the requests handed to c.Http.Do, in order
    responses,     \* the responses slice
    ret            \* what Send returned: res holds the Response reachable
                   \* through the returned pointer (none for nil), err the error

vars == <<pc, calls, tokensIssued, issuedAtEntry, tokenCalls, arg, msg,
          acsJsonData, verr, acsToken, err, idx, wires, buf, posts,
          responses, ret>>

NoRet == [res |-> <<>>, err |-> NoErr]

Init ==
    /\ pc = "idle"
    /\ calls = 0
    /\ tokensIssued = 0
    /\ issuedAtEntry = 0
    /\ tokenCalls = 0
    /\ arg = NilMessage
    /\ msg = NilMessage
    /\ acsJsonData = "service-account"
    /\ verr = NoErr
    /\ acsToken = 0
    /\ err = NoErr
    /\ idx = 0
    /\ wires = <<>>
    /\ buf = <<>>
    /\ posts = <<>>
    /\ responses = <<>>
    /\ ret = NoRet

Min(a, b) == IF a < b THEN a ELSE b

Drop(s, n) == SubSeq(s, n + 1, Len(s))

\* return nil, e
ReturnError(e) ==
    /\ ret' = [res |-> <<>>, err |-> e]
    /\ pc' = "returned"

(* ------------------------------ actions ------------------------------- *)
\* the caller invokes c.Send(m, creds)
Send(m, creds) ==
    /\ pc = "idle"
    /\ calls < MaxCalls
    /\ calls' = calls + 1
    /\ issuedAtEntry' = tokensIssued
    /\ arg' = m
    /\ msg' = m
    /\ acsJsonData' = creds
    /\ pc' = "validate"
    /\ UNCHANGED <<tokensIssued, tokenCalls, verr, acsToken, err, idx, wires,
                   buf, posts, responses, ret>>

\* Send going on to send whatever validate returned
Validate_ignoresError ==
    /\ pc = "validate"
    /\ verr' = validate(msg)
    /\ pc' = "token"
    /\ UNCHANGED <<calls, tokensIssued, issuedAtEntry, tokenCalls, arg, msg,
                   acsJsonData, acsToken, err, idx, wires, buf, posts,
                   responses, ret>>

\* if err := msg.validate(); err != nil { return nil, err }; return c.send(...)
Validate ==
    /\ pc = "validate"
    /\ verr' = validate(msg)
    /\ IF validate(msg) # NoErr
       THEN ReturnError(validate(msg))
       ELSE pc' = "token" /\ UNCHANGED ret
    /\ UNCHANGED <<calls, tokensIssued, issuedAtEntry, tokenCalls, arg, msg,
                   acsJsonData, acsToken, err, idx, wires, buf, posts, responses>>

\* send keeping the token of an earlier call instead of asking for a new one
GetAccessToken_cached ==
    /\ pc = "token"
    /\ IF tokensIssued > 0
       THEN /\ acsToken' = tokensIssued
            /\ err' = NoErr
            /\ pc' = "loop"
            /\ UNCHANGED <<tokensIssued, tokenCalls, ret>>
       ELSE /\ tokenCalls' = tokenCalls + 1
            /\ \/ /\ acsJsonData = "malformed"
                  /\ err' = ErrCredentials
                  /\ ReturnError(ErrCredentials)
                  /\ UNCHANGED <<tokensIssued, acsToken>>
               \/ /\ acsJsonData # "malformed"
                  /\ tokensIssued' = tokensIssued + 1
                  /\ acsToken' = tokensIssued + 1
                  /\ err' = NoErr
                  /\ pc' = "loop"
                  /\ UNCHANGED ret
    /\ UNCHANGED <<calls, issuedAtEntry, arg, msg, acsJsonData, verr, idx,
                   wires, buf, posts, responses>>

\* acsToken, err := getAcsessToken(acsJsonData); if err != nil { return nil, err }
GetAccessToken ==
    /\ pc = "token"
    /\ tokenCalls' = tokenCalls + 1
    /\ \/ /\ acsJsonData = "malformed"
          /\ err' = ErrCredentials
          /\ ReturnError(ErrCredentials)
          /\ UNCHANGED <<tokensIssued, acsToken>>
       \/ /\ acsJsonData # "malformed"
          /\ err' = ErrToken
          /\ ReturnError(ErrToken)
          /\ UNCHANGED <<tokensIssued, acsToken>>
       \/ /\ acsJsonData # "malformed"
          /\ tokensIssued' = tokensIssued + 1
          /\ acsToken' = tokensIssued + 1
          /\ err' = NoErr
          /\ pc' = "loop"
          /\ UNCHANGED ret
    /\ UNCHANGED <<calls, issuedAtEntry, arg, msg, acsJsonData, verr, idx,
                   wires, buf, posts, responses>>

\* one iteration of the range loop up to encoder.Encode(wrappedMsg)
BuildAndEncode ==
    /\ pc = "loop"
    /\ idx < Len(msg.RegistrationIDs.elems)
    /\ LET token == msg.RegistrationIDs.elems[idx + 1]
           messageV1 == translate(msg, token)
           enc == Encode(WrappedMessage(messageV1))
       IN /\ idx' = idx + 1
          /\ wires' = Append(wires, messageV1)
          /\ IF enc.err # NoErr
             THEN ReturnError(enc.err) /\ UNCHANGED buf
             ELSE /\ buf' = buf \o enc.out
                  /\ pc' = "request"
                  /\ UNCHANGED ret
    /\ UNCHANGED <<calls, tokensIssued, issuedAtEntry, tokenCalls, arg, msg,
                   acsJsonData, verr, acsToken, err, posts, responses>>

\* http.NewRequest("POST", c.URL, &buf), the two headers, c.Http.Do(req):
\* the request's body is the buffer, with all it holds at this point
Do ==
    /\ pc = "request"
    /\ posts' = Append(posts,
                       [Method |-> "POST",
                        Authorization |-> "Bearer " \o ToString(acsToken),
                        ContentType |-> "application/json",
                        Body |-> buf,
                        For |-> idx])
    /\ pc' = "await"
    /\ UNCHANGED <<calls, tokensIssued, issuedAtEntry, tokenCalls, arg, msg,
                   acsJsonData, verr, acsToken, err, idx, wires, buf,
                   responses, ret>>

\* a failed delivery returning the first response collected so far
Receive_partialResults ==
    /\ pc = "await"
    /\ \E r \in 0..((Len(buf) + ReadChunk - 1) \div ReadChunk) :
          buf' = Drop(buf, Min(r * ReadChunk, Len(buf)))
    /\ \/ /\ ret' = [res |-> SubSeq(responses, 1, Min(1, Len(responses))),
                      err |-> ErrStatus]
          /\ pc' = "returned"
          /\ UNCHANGED responses
       \/ /\ responses' = Append(responses, [name |-> Len(posts)])
          /\ pc' = "loop"
          /\ UNCHANGED ret
    /\ UNCHANGED <<calls, tokensIssued, issuedAtEntry, tokenCalls, arg, msg,
                   acsJsonData, verr, acsToken, err, idx, wires, posts>>

\* c.Http.Do returns.  The transport has made r Reads of the body, each taking
\* up to ReadChunk elements out of the buffer; what it did not read stays in
\* the buffer.  Then the status check and the decoding of the response body.
Receive ==
    /\ pc = "await"
    /\ \E r \in 0..((Len(buf) + ReadChunk - 1) \div ReadChunk) :
          buf' = Drop(buf, Min(r * ReadChunk, Len(buf)))
    /\ \/ ReturnError(ErrTransport) /\ UNCHANGED responses
       \/ \E status \in {StatusOK, 500}, decodable \in BOOLEAN :
             IF status # StatusOK
             THEN ReturnError(ErrStatus) /\ UNCHANGED responses
             ELSE IF ~decodable
             THEN ReturnError(ErrDecode) /\ UNCHANGED responses
             ELSE /\ responses' = Append(responses, [name |-> Len(posts)])
                  /\ pc' = "loop"
                  /\ UNCHANGED ret
    /\ UNCHANGED <<calls, tokensIssued, issuedAtEntry, tokenCalls, arg, msg,
                   acsJsonData, verr, acsToken, err, idx, wires, posts>>

\* return &responses[0], err
ReturnFirst ==
    /\ pc = "loop"
    /\ idx = Len(msg.RegistrationIDs.elems)
    /\ IF Len(responses) = 0
       THEN pc' = "panic" /\ UNCHANGED ret
       ELSE /\ ret' = [res |-> <<responses[1]>>, err |-> err]
            /\ pc' = "returned"
    /\ UNCHANGED <<calls, tokensIssued, issuedAtEntry, tokenCalls, arg, msg,
                   acsJsonData, verr, acsToken, err, idx, wires, buf, posts,
                   responses>>

\* the call is over: its locals are gone, the Client keeps nothing of it
Finish ==
    /\ pc = "returned"
    /\ pc' = "idle"
    /\ tokenCalls' = 0
    /\ arg' = NilMessage
    /\ msg' = NilMessage
    /\ acsJsonData' = "service-account"
    /\ verr' = NoErr
    /\ acsToken' = 0
    /\ err' = NoErr
    /\ idx' = 0
    /\ wires' = <<>>
    /\ buf' = <<>>
    /\ posts' = <<>>
    /\ responses' = <<>>
    /\ ret' = NoRet
    /\ UNCHANGED <<calls, tokensIssued, issuedAtEntry>>

Next ==
    \/ \E m \in Messages, creds \in Credentials : Send(m, creds)
    \/ Validate
    \/ GetAccessToken
    \/ BuildAndEncode
    \/ Do
    \/ Receive
    \/ ReturnFirst
    \/ Finish

Spec == Init /\ [][Next]_vars

\* validate alone, on inputs that include the boundary list lengths
NextValidate ==
    \/ \E m \in ValidateInputs : Send(m, "service-account")
    \/ Validate

SpecValidate == Init /\ [][NextValidate]_vars

(* ====================== properties of the code ======================== *)
IDs == arg.RegistrationIDs.elems

\* positions of the key "token" in a request body
TokenIdx(body) ==
    {j \in 1..(Len(body) - 2) : body[j] = "\"token\"" /\ body[j + 1] = ":"}

\* the body has one token field, and it names t
CarriesOnly(body, t) ==
    /\ Cardinality(TokenIdx(body)) = 1
    /\ \A j \in TokenIdx(body) : body[j + 2] = "\"" \o t \o "\""

\* the body has a member with this key
HasKey(body, key) ==
    \E j \in 1..(Len(body) - 1) : body[j] = "\"" \o key \o "\"" /\ body[j + 1] = ":"

\* the message breaks one of the validation rules, as the rules are worded
Invalid(m) ==
    \/ m.nil
    \/ m.RegistrationIDs.nil
    \/ Len(m.RegistrationIDs.elems) = 0
    \/ Len(m.RegistrationIDs.elems) > 1000
    \/ m.TimeToLive \notin 0..2419200
    \/ m.Priority \notin {"", "high", "normal"}

\* C1: a message that fails validation makes Send return the validation
\* error with no result, and the call never asks for a token and never
\* issues a POST.
C1_InvalidNoNetwork ==
    (pc # "idle" /\ Invalid(arg)) =>
        /\ pc \in {"validate", "returned"}
        /\ tokenCalls = 0
        /\ tokensIssued = issuedAtEntry
        /\ posts = <<>>
        /\ pc = "returned" =>
              /\ ret.res = <<>>
              /\ ret.err # NoErr
              /\ ret.err = verr

C1_Witness ==
    /\ pc = "returned"
    /\ ~arg.nil
    /\ arg.Priority = "HIGH"
    /\ arg.RegistrationIDs.elems = <<"A", "B">>
    /\ ret.err = ErrPriority

\* C2: in a call that passes validation the token is acquired once, before
\* any POST; a failed acquisition ends the call with the error and no POST;
\* every POST carries the token acquired in this call, which is a token
\* issued during this call and not one of an earlier call.
C2_OneTokenPerCall ==
    /\ tokenCalls <= 1
    /\ pc \in {"loop", "request", "await"} =>
          /\ tokenCalls = 1
          /\ acsToken = tokensIssued
          /\ tokensIssued = issuedAtEntry + 1
    /\ posts # <<>> =>
          /\ tokenCalls = 1
          /\ tokensIssued = issuedAtEntry + 1
          /\ \A i \in 1..Len(posts) :
                posts[i].Authorization = "Bearer " \o ToString(tokensIssued)
    /\ (pc = "returned" /\ ret.err \in {ErrCredentials, ErrToken}) =>
          /\ posts = <<>>
          /\ ret.res = <<>>
          /\ tokenCalls = 1

C2_Witness ==
    /\ calls = 2
    /\ issuedAtEntry = 1
    /\ Len(posts) = 2
    /\ posts[2].Authorization = "Bearer 2"

\* C3: when the token is acquired and every request is answered 200 with a
\* decodable body, Send issues exactly one POST per target, one after
\* another, and the i-th request carries targets[i] as its single token field.
C3_OnePostPerTargetInOrder ==
    /\ pc = "await" => Len(posts) = Len(responses) + 1
    /\ (pc = "returned" /\ ret.err = NoErr) =>
          /\ Len(posts) = Len(IDs)
          /\ \A i \in 1..Len(posts) :
                /\ posts[i].For = i
                /\ CarriesOnly(posts[i].Body, IDs[i])

\* C4: when every delivery succeeds Send returns the list of results, one
\* per target, the i-th being the decoded response to the i-th POST.
C4_ReturnsAllResults ==
    (pc = "returned" /\ ret.err = NoErr) =>
        /\ Len(ret.res) = Len(IDs)
        /\ \A i \in 1..Len(ret.res) : ret.res[i] = [name |-> i]

\* C5: when the delivery for the k-th target fails, Send returns an error and
\* no result, the k-1 results collected are dropped, and exactly the POSTs for
\* targets 1..k have been issued.
C5_StopsAtFailingTarget ==
    (pc = "returned" /\ ret.err \in {ErrTransport, ErrStatus, ErrDecode}) =>
        /\ ret.res = <<>>
        /\ Len(posts) = Len(responses) + 1
        /\ Len(posts) <= Len(IDs)
        /\ idx = Len(posts)
        /\ \A i \in 1..Len(posts) : posts[i].For = i
        /\ \A i \in 1..Len(responses) : responses[i] = [name |-> i]

C5_Witness ==
    /\ pc = "returned"
    /\ ret.err = ErrStatus
    /\ Len(IDs) = 2
    /\ Len(posts) = 2
    /\ Len(responses) = 1

\* the validation rules in the order they are listed
RuleViolated(m, r) ==
    CASE r = 1 -> m.nil
      [] r = 2 -> ~m.nil /\ m.RegistrationIDs.nil
      [] r = 3 -> ~m.nil /\ Len(m.RegistrationIDs.elems) = 0
      [] r = 4 -> ~m.nil /\ Len(m.RegistrationIDs.elems) > 1000
      [] r = 5 -> ~m.nil /\ m.TimeToLive \notin 0..2419200
      [] r = 6 -> ~m.nil /\ m.Priority \notin {"", "high", "normal"}

RuleError ==
    <<ErrNilMessage, ErrNilIDs, ErrNoIDs, ErrTooManyIDs, ErrTimeToLive, ErrPriority>>

Violations(m) == {r \in 1..6 : RuleViolated(m, r)}

\* C6: validate accepts exactly the non-nil messages with 1 to 1000 targets,
\* a timeToLive in [0, 2419200] and a priority of "", "high" or "normal";
\* otherwise its error is that of the first violated rule; the message is
\* left as the caller passed it.
C6_ValidateRules ==
    pc \notin {"idle", "validate"} =>
        /\ verr = NoErr <=>
              /\ ~arg.nil
              /\ ~arg.RegistrationIDs.nil
              /\ Len(arg.RegistrationIDs.elems) \in 1..1000
              /\ arg.TimeToLive \in 0..2419200
              /\ arg.Priority \in {"", "high", "normal"}
        /\ verr # NoErr =>
              /\ Violations(arg) # {}
              /\ \A r \in Violations(arg) :
                    (\A q \in Violations(arg) : r <= q) => verr = RuleError[r]
        /\ verr = NoErr <=> pc = "token"
        /\ msg = arg

C6_Witness ==
    /\ pc = "token"
    /\ Len(arg.RegistrationIDs.elems) = 1000
    /\ arg.TimeToLive = 2419200
    /\ arg.Priority = "normal"

\* C7: the MessageV1 built for the i-th target has that target as token, the
\* message's collapseKey, data, delayWhileIdle, timeToLive,
\* restrictedPackageName and dryRun, a notification of title and body only,
\* clickAction and tag under android.notification and priority under
\* android.priority; the same target gives the same MessageV1, and the
\* message is not changed.
C7_Translation ==
    /\ pc # "idle" => msg = arg
    /\ \A i \in 1..Len(wires) :
          /\ DOMAIN wires[i] = {"Token", "CollapseKey", "Notification", "Data",
                                "DelayWhileIdle", "TimeToLive", "Android",
                                "RestrictedPackageName", "DryRun"}
          /\ wires[i].Token = IDs[i]
          /\ wires[i].CollapseKey = arg.CollapseKey
          /\ wires[i].Data = arg.Data
          /\ wires[i].DelayWhileIdle = arg.DelayWhileIdle
          /\ wires[i].TimeToLive = arg.TimeToLive
          /\ wires[i].RestrictedPackageName = arg.RestrictedPackageName
          /\ wires[i].DryRun = arg.DryRun
          /\ DOMAIN wires[i].Notification = {"Title", "Body"}
          /\ wires[i].Notification.Title = arg.Notification.Title
          /\ wires[i].Notification.Body = arg.Notification.Body
          /\ DOMAIN wires[i].Android = {"Notification", "Priority"}
          /\ DOMAIN wires[i].Android.Notification = {"ClickAction", "Tag"}
          /\ wires[i].Android.Notification.ClickAction = arg.Notification.ClickAction
          /\ wires[i].Android.Notification.Tag = arg.Notification.Tag
          /\ wires[i].Android.Priority = arg.Priority
    /\ \A i, j \in 1..Len(wires) : IDs[i] = IDs[j] => wires[i] = wires[j]

C7_Witness ==
    /\ Len(wires) = 1
    /\ arg.Notification.ClickAction = "OPEN"
    /\ arg.Notification.Tag = "tg"
    /\ arg.Notification.Title = "Hi"
    /\ arg.Priority = "high"
    /\ arg.CollapseKey = "ck"
    /\ arg.DryRun

\* the message of the serialization scenario
ScenarioMessage ==
    Message(Slice(<<"tok1">>), "", Notification("Hi", "there", "", ""),
            NoData, FALSE, 0, "high", "", FALSE)

\* {"message":{"token":"tok1","notification":{"title":"Hi","body":"there"},
\*  "android":{"notification":{},"priority":"high"}}}
ScenarioBodyEmptyAndroidNotification ==
    <<"{", "\"message\"", ":", "{",
        "\"token\"", ":", "\"tok1\"", ",",
        "\"notification\"", ":", "{",
            "\"title\"", ":", "\"Hi\"", ",", "\"body\"", ":", "\"there\"", "}", ",",
        "\"android\"", ":", "{",
            "\"notification\"", ":", "{", "}", ",",
            "\"priority\"", ":", "\"high\"", "}",
      "}", "}">>

\* {"message":{"token":"tok1","notification":{"title":"Hi","body":"there"},
\*  "android":{"notification":{"click_action":"","tag":""},"priority":"high"}}}
ScenarioBodyWithClickActionAndTag ==
    <<"{", "\"message\"", ":", "{",
        "\"token\"", ":", "\"tok1\"", ",",
        "\"notification\"", ":", "{",
            "\"title\"", ":", "\"Hi\"", ",", "\"body\"", ":", "\"there\"", "}", ",",
        "\"android\"", ":", "{",
            "\"notification\"", ":", "{",
                "\"click_action\"", ":", "\"\"", ",", "\"tag\"", ":", "\"\"", "}", ",",
            "\"priority\"", ":", "\"high\"", "}",
      "}", "}">>

\* C8 as stated: the scenario's POST body is the envelope in which
\* android.notification is the empty object, with no key for any empty
\* optional field (a newline after the envelope is allowed).
C8_ScenarioBodyAsStated ==
    (arg = ScenarioMessage /\ posts # <<>>) =>
        /\ Len(posts) = 1
        /\ posts[1].Body \in {ScenarioBodyEmptyAndroidNotification,
                              ScenarioBodyEmptyAndroidNotification \o <<"\n">>}

\* C8 amended: the scenario's POST body is the envelope, followed by a
\* newline, in which android.notification is {"click_action":"","tag":""};
\* in the first request of any call title, body, click_action and tag are
\* always written, and collapse_key, data, delay_while_idle, time_to_live,
\* priority, restricted_package_name and dry_run exactly when not empty.
C8_ScenarioBodyAmended ==
    /\ (arg = ScenarioMessage /\ posts # <<>>) =>
          /\ Len(posts) = 1
          /\ posts[1].Body = ScenarioBodyWithClickActionAndTag \o <<"\n">>
    /\ posts # <<>> =>
          LET b == posts[1].Body
          IN /\ \A k \in {"message", "token", "notification", "title", "body",
                          "android", "click_action", "tag"} : HasKey(b, k)
             /\ HasKey(b, "collapse_key") <=> arg.CollapseKey # ""
             /\ HasKey(b, "data") <=> arg.Data # <<>>
             /\ HasKey(b, "delay_while_idle") <=> arg.DelayWhileIdle
             /\ HasKey(b, "time_to_live") <=> arg.TimeToLive # 0
             /\ HasKey(b, "priority") <=> arg.Priority # ""
             /\ HasKey(b, "restricted_package_name") <=> arg.RestrictedPackageName # ""
             /\ HasKey(b, "dry_run") <=> arg.DryRun

C8_Witness ==
    /\ arg = ScenarioMessage
    /\ Len(posts) = 1
    /\ pc = "returned"
    /\ ret.err = NoErr

\* C9: the body of every POST is exactly the one envelope serialized for the
\* current target; nothing serialized for an earlier target is in it.
C9_BodyIsOneEnvelope ==
    \A i \in 1..Len(posts) :
        posts[i].Body = Encode(WrappedMessage(translate(arg, IDs[i]))).out

\* C10: Send never panics; a call returns either an error and no result or a
\* result and no error; when the loop ends without error the responses slice
\* holds one entry per target, at least one.
C10_NoCrashOneOutcome ==
    /\ pc # "panic"
    /\ pc = "returned" =>
          \/ ret.err # NoErr /\ ret.res = <<>>
          \/ ret.err = NoErr /\ Len(ret.res) = 1
    /\ (pc = "loop" /\ idx = Len(IDs)) =>
          /\ Len(responses) = Len(IDs)
          /\ Len(responses) >= 1

C10_Witness ==
    /\ pc = "returned"
    /\ ret.err = NoErr
    /\ Len(IDs) = 2
    /\ Len(responses) = 2

====
